---- MODULE Spec2Model ----
(***************************************************************************)
(* dailyhues: the two-level, content-addressed cache of /api/colors.       *)
(*                                                                         *)
(* The model follows App.handleGetColors step by step.  Every request is   *)
(* one goroutine (a member of Procs); the RequestCache, the AnalysisCache, *)
(* the registry of per-image mutexes and the single shared bing.Client are *)
(* the shared state.  The Bing feed and the AI analyzer are environment:   *)
(* the feed serves one image per (market, daysAgo), may replace it at the  *)
(* top of an hour and may fail; the analyzer answers with some palette or  *)
(* with an error.  Both caches keep one JSON file per entry; a write of a   *)
(* file may fail, and the process may be killed and started again, which   *)
(* loads the files back (LoadAll).                                         *)
(***************************************************************************)
EXTENDS Integers, FiniteSets, Sequences, TLC

\* ------------------------------------------------------------------ bounds
\* goroutines serving requests at the same time
NumProcs == 2
\* requests served in all
MaxRequests == 3
MaxTime == 2
\* writes of a cache file that fail, in all
MaxDiskFaults == 1
\* times the process is killed and started again
MaxCrashes == 1
\* one hour, in clock ticks
Hour == 2

Procs == 1..NumProcs
\* nil values: a nil string or palette, a nil *WallpaperInfo, a nil
\* *RequestEntry, a nil *sync.Mutex, and "no goroutine"
Nil == "nil"
NoInfo == [img |-> Nil, mkt |-> Nil]
NoEntry == [Locale |-> Nil, DaysAgo |-> 0, ImageHash |-> Nil, Info |-> NoInfo,
            ExpiresAt |-> 0]
NoKey == <<Nil, 0>>
NoMutex == 0
NoProc == 0
\* no file of that name in the cache directory
NoRequestFile == [locale |-> Nil, days_ago |-> 0, image_hash |-> Nil,
                  info |-> NoInfo, expires_at |-> 0]
NoAnalysisFile == [image_hash |-> Nil, colors |-> Nil]
\* a file os.ReadFile fails on, and a file whose bytes are not JSON
UnreadableRequestFile == [locale |-> "unreadable", days_ago |-> 0,
                          image_hash |-> Nil, info |-> NoInfo, expires_at |-> 0]
GarbledRequestFile == [locale |-> "garbled", days_ago |-> 0,
                       image_hash |-> Nil, info |-> NoInfo, expires_at |-> 0]
UnreadableAnalysisFile == [image_hash |-> "unreadable", colors |-> Nil]
GarbledAnalysisFile == [image_hash |-> "garbled", colors |-> Nil]
\* the cache directory does not exist: os.ReadDir fails with ErrNotExist
NoDirectory == << >>
\* no error body: the response is not an ErrorResponse
NoBody == <<Nil, Nil>>
\* no request: the handler has not been called, or has validated its request
NoRequest == [method |-> Nil, daysAgo |-> << >>, locale |-> Nil]

\* ------------------------------------------------------------ input domains
Locales == {"en-US", "ja-JP"}
DaysAgoSet == {0}
Keys == Locales \X DaysAgoSet
Images == {"imgA", "imgB"}
Palettes == {"p1", "p2"}
\* error texts of the feed client and of the analyzer
FeedErrors == {"Bing API returned status 500", "failed to fetch from Bing API"}
AIErrors == {"OpenRouter API returned status 429", "no response from AI model"}

\* maxDaysBack, defaultLocale and the status codes of net/http
maxDaysBack == 7
defaultLocale == "en-US"
StatusMethodNotAllowed == "405"
StatusBadRequest == "400"

\* the requests a client may send: r.Method, and the daysAgo and locale
\* parameters of the query, a string of characters and a string; an absent
\* parameter reads as the empty string
Methods == {"GET", "POST"}
DaysAgoParams == {<< >>, <<"0">>, <<"8">>, <<"-", "1">>, <<"x">>, <<"0", "x">>}
LocaleParams == {"", "en-US", "ja-JP", "xx-XX"}
Requests == [method : Methods, daysAgo : DaysAgoParams, locale : LocaleParams]

\* cache.HashImage: hex of the SHA-256 digest of the bytes; a fixed function
\* of the bytes alone that tells the images of the model apart.
HashImage(imageData) ==
    CASE imageData = "imgA" -> "hashA"
      [] imageData = "imgB" -> "hashB"

Hashes == {HashImage(i) : i \in Images}

VARIABLES
    now,            \* time.Now(), in ticks
    feed,           \* the image Bing serves now, per (market, daysAgo)
    started,        \* number of requests received so far
    market,         \* bing.Client.market of the one shared client
    requestData,    \* RequestCache.data
    analysisData,   \* AnalysisCache.data
    processing,     \* AnalysisCache.processing: hash -> mutex instance
    mutexHolder,    \* the sync.Mutex instances created so far: holder or NoProc
    pc,             \* position of each request in handleGetColors
    key,            \* <<locale, daysAgo>> of each request
    reqEntry,       \* reqEntry read in step 1
    checkedAt,      \* time.Now() read in step 1
    info,           \* WallpaperInfo returned by the feed
    imageHash,      \* imageHash of step 3
    imageMutex,     \* imageMutex of step 5
    colors,         \* palette computed or read by the request
    path,           \* how the request was answered
    did,            \* external calls, lock and store writes made by the request
    aiCalls,        \* AnalyzeColors calls made so far, per image hash
    aiFails,        \* AnalyzeColors calls that returned an error, per image hash
    requestFiles,   \* cache/requests: file name -> JSON document
    analysisFiles,  \* cache/analysis: file name -> JSON document
    diskFaults,     \* writes of a cache file that may still fail
    crashes,        \* times the process was started again
    unsaved,        \* image hashes whose analysis file could not be written
    unsavedKeys,    \* keys whose latest request file could not be written
    body,           \* ErrorResponse.Error sent by the request, if any
    req,            \* the *http.Request a handler was called with, until validated
    processingL,    \* AnalysisCache.processingL: the goroutine holding it
    analysisMu,     \* AnalysisCache.mu: the goroutine holding the write lock
    requestMu,      \* RequestCache.mu: the goroutine holding the write lock
    gone,           \* requests whose client has closed the connection
    fetchedAt       \* time.Now() when the feed answered the request

vars == <<now, feed, started, market, requestData, analysisData, processing,
          mutexHolder, pc, key, reqEntry, checkedAt, info, imageHash,
          imageMutex, colors, path, did, aiCalls, aiFails, requestFiles,
          analysisFiles, diskFaults, crashes, unsaved, unsavedKeys, body,
          req, processingL, analysisMu, requestMu, gone, fetchedAt>>

shared == <<requestData, analysisData, processing, mutexHolder>>

counts == <<aiCalls, aiFails>>

files == <<requestFiles, analysisFiles, diskFaults, unsaved, unsavedKeys>>

fine == <<req, processingL, analysisMu>>

more == <<requestMu, gone, fetchedAt>>

\* --------------------------------------------------------------- helpers

\* the expiry is one hour after the write, wherever in the hour that is
getNextHourBoundaryFromNow(t) == t + Hour

\* getNextHourBoundary: now.Truncate(time.Hour).Add(time.Hour)
getNextHourBoundary(t) == (t - (t % Hour)) + Hour

\* the TTL test left out: every stored entry counts as fresh
FreshAlways(entry, t) == TRUE

\* time.Now().Before(reqEntry.ExpiresAt)
Fresh(entry, t) == t < entry.ExpiresAt

\* the key leaves the locale out: one key per daysAgo
makeKeyNoLocale(locale, daysAgo) == <<defaultLocale, daysAgo>>

\* RequestCache.makeKey: "%s_%d", one key per (locale, daysAgo)
makeKey(locale, daysAgo) == <<locale, daysAgo>>

\* Get hides an entry that has expired
RequestGetFresh(k) ==
    IF requestData[k] # NoEntry /\ Fresh(requestData[k], now)
    THEN requestData[k] ELSE NoEntry

\* RequestCache.Get
RequestGet(k) == requestData[k]

\* the entry RequestCache.Set builds from its arguments
NewRequestEntry(k, hash, inf, expiresAt) ==
    [Locale |-> k[1], DaysAgo |-> k[2], ImageHash |-> hash, Info |-> inf,
     ExpiresAt |-> expiresAt]

\* Set updates an entry it finds: the old metadata stays, only the hash and
\* the expiry are new
RequestSetMerge(data, k, hash, inf, expiresAt) ==
    [data EXCEPT ![makeKey(k[1], k[2])] =
        NewRequestEntry(k, hash, IF @ # NoEntry THEN @.Info ELSE inf, expiresAt)]

\* RequestCache.Set: builds a new entry and overwrites data[key]
RequestSet(data, k, hash, inf, expiresAt) ==
    [data EXCEPT ![makeKey(k[1], k[2])] = NewRequestEntry(k, hash, inf, expiresAt)]

\* Set undoes the in-memory write when the file could not be written
RequestSetRollback(data, k, hash, inf, expiresAt, ok) ==
    IF ok THEN RequestSet(data, k, hash, inf, expiresAt) ELSE data

\* RequestCache.data after Set, whose saveToFile returned ok or an error
RequestSetResult(data, k, hash, inf, expiresAt, ok) ==
    RequestSet(data, k, hash, inf, expiresAt)

\* json.MarshalIndent of a RequestEntry, by its json tags
MarshalRequest(entry) ==
    [locale |-> entry.Locale, days_ago |-> entry.DaysAgo,
     image_hash |-> entry.ImageHash, info |-> entry.Info,
     expires_at |-> entry.ExpiresAt]

\* the expiry is not read back: ExpiresAt is the zero time
UnmarshalRequestNoExpiry(doc) ==
    [Locale |-> doc.locale, DaysAgo |-> doc.days_ago,
     ImageHash |-> doc.image_hash, Info |-> doc.info, ExpiresAt |-> 0]

\* json.Unmarshal into a RequestEntry
UnmarshalRequest(doc) ==
    [Locale |-> doc.locale, DaysAgo |-> doc.days_ago,
     ImageHash |-> doc.image_hash, Info |-> doc.info,
     ExpiresAt |-> doc.expires_at]

\* RequestCache.saveToFile: the file <locale>_<daysAgo>.json is written,
\* or os.WriteFile fails and the directory stays as it was
RequestSave(fs, entry, ok) ==
    IF ok
    THEN [fs EXCEPT ![makeKey(entry.Locale, entry.DaysAgo)] = MarshalRequest(entry)]
    ELSE fs

\* os.IsNotExist(err) of the error of os.ReadDir
IsNotExist(fs) == fs = NoDirectory

\* the files of the request directory LoadAll stores: os.ReadFile and
\* json.Unmarshal both succeed on them
RequestLoadable(fs) ==
    {f \in DOMAIN fs : /\ fs[f] # NoRequestFile
                       /\ fs[f] # UnreadableRequestFile
                       /\ fs[f] # GarbledRequestFile}

\* LoadAll gives up at the first file it cannot read or parse
RequestLoadAllStrict(fs) ==
    [k \in Keys |->
        IF /\ RequestLoadable(fs) = {f \in DOMAIN fs : fs[f] # NoRequestFile}
           /\ \E f \in RequestLoadable(fs) :
                 makeKey(fs[f].locale, fs[f].days_ago) = k
        THEN UnmarshalRequest(fs[CHOOSE f \in RequestLoadable(fs) :
                                    makeKey(fs[f].locale, fs[f].days_ago) = k])
        ELSE NoEntry]

\* RequestCache.LoadAll on an empty cache: nothing when the directory does
\* not exist; otherwise every file that can be read and parsed is stored
\* under the key made from its own locale and days_ago, the others skipped
RequestLoadAll(fs) ==
    IF IsNotExist(fs)
    THEN [k \in Keys |-> NoEntry]
    ELSE [k \in Keys |->
            IF \E f \in RequestLoadable(fs) :
                  makeKey(fs[f].locale, fs[f].days_ago) = k
            THEN UnmarshalRequest(fs[CHOOSE f \in RequestLoadable(fs) :
                                        makeKey(fs[f].locale, fs[f].days_ago) = k])
            ELSE NoEntry]

\* AnalysisCache.Get
AnalysisGet(hash) == analysisData[hash]

\* c.mu.RLock() of AnalysisCache.Get returns: no Set holds c.mu
AnalysisRLock == analysisMu = NoProc

\* the in-memory write of Set left out
AnalysisSetLost(data, hash, cols) == data

\* AnalysisCache.Set: data[imageHash] = entry
AnalysisSet(data, hash, cols) == [data EXCEPT ![hash] = cols]

\* Set undoes the in-memory write when the file could not be written
AnalysisSetRollback(data, hash, cols, ok) ==
    IF ok THEN AnalysisSet(data, hash, cols) ELSE data

\* AnalysisCache.data after Set, whose saveToFile returned ok or an error
AnalysisSetResult(data, hash, cols, ok) == AnalysisSet(data, hash, cols)

\* json.MarshalIndent of an AnalysisEntry, by its json tags
MarshalAnalysis(hash, cols) == [image_hash |-> hash, colors |-> cols]

\* the analysis file is not written before the request file is
AnalysisSaveLate(fs, hash, cols, ok) == fs

\* AnalysisCache.saveToFile: the file <hash>.json is written, or
\* os.WriteFile fails and the directory stays as it was
AnalysisSave(fs, hash, cols, ok) ==
    IF ok THEN [fs EXCEPT ![hash] = MarshalAnalysis(hash, cols)] ELSE fs

\* the files of the analysis directory LoadAll stores
AnalysisLoadable(fs) ==
    {f \in DOMAIN fs : /\ fs[f] # NoAnalysisFile
                       /\ fs[f] # UnreadableAnalysisFile
                       /\ fs[f] # GarbledAnalysisFile}

\* AnalysisCache.LoadAll on an empty cache
AnalysisLoadAll(fs) ==
    IF IsNotExist(fs)
    THEN [h \in Hashes |-> Nil]
    ELSE [h \in Hashes |->
            IF \E f \in AnalysisLoadable(fs) : fs[f].image_hash = h
            THEN fs[CHOOSE f \in AnalysisLoadable(fs) : fs[f].image_hash = h].colors
            ELSE Nil]

Digits == {"0", "1", "2", "3", "4", "5", "6", "7", "8", "9"}

DigitValue(c) ==
    CASE c = "0" -> 0 [] c = "1" -> 1 [] c = "2" -> 2 [] c = "3" -> 3
      [] c = "4" -> 4 [] c = "5" -> 5 [] c = "6" -> 6 [] c = "7" -> 7
      [] c = "8" -> 8 [] c = "9" -> 9

\* the characters of a sign at the head of the string: one or none
SignLen(str) == IF Len(str) > 0 /\ str[1] \in {"+", "-"} THEN 1 ELSE 0

\* the index of the last digit of the run of digits that starts at i
RECURSIVE DigitRun(_, _)
DigitRun(str, i) ==
    IF i <= Len(str) /\ str[i] \in Digits THEN DigitRun(str, i + 1) ELSE i - 1

\* the number written by the digits str[i..j]
RECURSIVE Decimal(_, _, _)
Decimal(str, i, j) ==
    IF j < i THEN 0 ELSE Decimal(str, i, j - 1) * 10 + DigitValue(str[j])

\* fmt.Sscanf(str, "%d", &n): an optional sign and the run of digits after
\* it are read, and the run must not be empty; the scan ends with the
\* format, so what follows the digits is never looked at
Sscanf(str) ==
    LET a == SignLen(str) + 1
        b == DigitRun(str, a)
    IN  IF b < a
        THEN [err |-> "expected integer", n |-> 0]
        ELSE [err |-> Nil,
              n |-> IF SignLen(str) = 1 /\ str[1] = "-"
                    THEN 0 - Decimal(str, a, b) ELSE Decimal(str, a, b)]

\* validateDaysAgo
validateDaysAgo(daysAgoParam) ==
    IF daysAgoParam = << >>
    THEN [daysAgo |-> 0, err |-> Nil]
    ELSE LET scan == Sscanf(daysAgoParam) IN
         IF scan.err # Nil
         THEN [daysAgo |-> 0, err |-> "invalid daysAgo parameter. Must be an integer"]
         ELSE IF scan.n < 0
         THEN [daysAgo |-> 0, err |-> "daysAgo cannot be negative"]
         ELSE IF scan.n > maxDaysBack
         THEN [daysAgo |-> 0, err |-> "daysAgo too large"]
         ELSE [daysAgo |-> scan.n, err |-> Nil]

\* validateLocale; the allowed locales are the locales of the model
validateLocale(locale) ==
    IF locale = ""
    THEN [locale |-> defaultLocale, err |-> Nil]
    ELSE IF locale \in Locales
    THEN [locale |-> locale, err |-> Nil]
    ELSE [locale |-> "", err |-> "invalid locale"]

\* os.WriteFile succeeds, or fails while the disk is allowed to
WriteOutcomes == IF diskFaults > 0 THEN {TRUE, FALSE} ELSE {TRUE}

\* fmt.Sprintf("<prefix>: %v", err), the ErrorResponse.Error of a 500
ErrorBody(prefix, err) == <<prefix, err>>

\* the lookup never finds the registered mutex: every call makes a new one
ProcessingLookupMiss(hash) == NoMutex

\* the lookup ignores the hash: one mutex for all images
ProcessingLookupShared(hash) ==
    IF \E h \in Hashes : processing[h] # NoMutex
    THEN processing[CHOOSE h \in Hashes : processing[h] # NoMutex]
    ELSE NoMutex

\* the lookup of AnalysisCache.GetMutex: c.processing[imageHash]
ProcessingLookup(hash) == processing[hash]

\* step 4 left out: every request that downloaded goes on to the lock
PreLockCheckMiss(p) == Nil

\* step 4, the check before the lock
PreLockCheck(p) == AnalysisGet(imageHash[p])

\* step 6 left out: the lock holder always analyzes
DoubleCheckSkipped(p) == Nil

\* step 6, the check under the lock
DoubleCheck(p) == AnalysisGet(imageHash[p])

\* ------------------------------------------------------------------ Init
\* The state after main has built the caches and the clients, before
\* anything is loaded.  The two images are interchangeable, so the one
\* en-US starts with is called imgA.
Memory ==
    /\ now = 0
    /\ feed \in {f \in [Keys -> Images] : f[<<"en-US", 0>>] = "imgA"}
    /\ started = 0
    /\ market = "en-US"
    /\ requestData = [k \in Keys |-> NoEntry]
    /\ analysisData = [h \in Hashes |-> Nil]
    /\ processing = [h \in Hashes |-> NoMutex]
    /\ mutexHolder = << >>
    /\ pc = [p \in Procs |-> "idle"]
    /\ key = [p \in Procs |-> NoKey]
    /\ reqEntry = [p \in Procs |-> NoEntry]
    /\ checkedAt = [p \in Procs |-> 0]
    /\ info = [p \in Procs |-> NoInfo]
    /\ imageHash = [p \in Procs |-> Nil]
    /\ imageMutex = [p \in Procs |-> NoMutex]
    /\ colors = [p \in Procs |-> Nil]
    /\ path = [p \in Procs |-> "none"]
    /\ did = [p \in Procs |-> {}]
    /\ aiCalls = [h \in Hashes |-> 0]
    /\ aiFails = [h \in Hashes |-> 0]
    /\ crashes = 0
    /\ unsaved = {}
    /\ unsavedKeys = {}
    /\ body = [p \in Procs |-> NoBody]
    /\ req = [p \in Procs |-> NoRequest]
    /\ processingL = NoProc
    /\ analysisMu = NoProc
    /\ requestMu = NoProc
    /\ gone = {}
    /\ fetchedAt = [p \in Procs |-> 0]

\* the service starts on an empty cache directory
Boot ==
    /\ Memory
    /\ requestFiles = [f \in Keys |-> NoRequestFile]
    /\ analysisFiles = [f \in Hashes |-> NoAnalysisFile]

\* the disk takes every write
Init == Boot /\ diskFaults = 0

\* up to MaxDiskFaults writes of a cache file will fail
InitFaults == Boot /\ diskFaults = MaxDiskFaults

\* --------------------------------------------------------------- actions

\* Step 1, first half: requestCache.Get(locale, daysAgo) and the TTL test.
Step1Get(p, k) ==
    /\ key' = [key EXCEPT ![p] = k]
    /\ reqEntry' = [reqEntry EXCEPT ![p] = RequestGet(k)]
    /\ checkedAt' = [checkedAt EXCEPT ![p] = IF RequestGet(k) # NoEntry THEN now ELSE 0]
    /\ pc' = [pc EXCEPT ![p] =
                IF RequestGet(k) # NoEntry /\ Fresh(RequestGet(k), now)
                THEN "s1" ELSE "s2"]
    /\ UNCHANGED <<now, feed, market, shared, info, imageHash, imageMutex,
                   colors, path, did>>
    /\ UNCHANGED counts
    /\ UNCHANGED <<files, crashes, body>>
    /\ UNCHANGED <<processingL, analysisMu>>
    /\ UNCHANGED more

\* A GET request with a valid locale and daysAgo, that is for the key k,
\* is received and passes validation; step 1 starts.
Begin(p, k) ==
    /\ pc[p] = "idle"
    /\ \A q \in Procs : q < p => pc[q] # "idle"
    /\ started < MaxRequests
    /\ started' = started + 1
    /\ Step1Get(p, k)
    /\ UNCHANGED req

\* net/http calls handleGetColors with the request r, in a new goroutine.
Receive(p, r) ==
    /\ pc[p] = "idle"
    /\ \A q \in Procs : q < p => pc[q] # "idle"
    /\ started < MaxRequests
    /\ started' = started + 1
    /\ req' = [req EXCEPT ![p] = r]
    /\ pc' = [pc EXCEPT ![p] = "validate"]
    /\ UNCHANGED <<now, feed, market, shared, key, reqEntry, checkedAt, info,
                   imageHash, imageMutex, colors, path, did>>
    /\ UNCHANGED counts
    /\ UNCHANGED <<files, crashes, body>>
    /\ UNCHANGED <<processingL, analysisMu>>
    /\ UNCHANGED more

\* respondWithError(w, code, message) and return, before step 1
Reject(p, code, message) ==
    /\ pc' = [pc EXCEPT ![p] = "done"]
    /\ path' = [path EXCEPT ![p] = code]
    /\ body' = [body EXCEPT ![p] = <<message, Nil>>]
    /\ UNCHANGED <<now, feed, market, shared, key, reqEntry, checkedAt, info,
                   imageHash, imageMutex, colors, did>>
    /\ UNCHANGED counts
    /\ UNCHANGED <<files, crashes>>
    /\ UNCHANGED <<processingL, analysisMu>>
    /\ UNCHANGED more

\* The head of handleGetColors: the method test, validateDaysAgo and
\* validateLocale, each ending the request on failure; then step 1 with the
\* validated locale and daysAgo.  The request is not used after this.
Validate(p) ==
    /\ pc[p] = "validate"
    /\ req' = [req EXCEPT ![p] = NoRequest]
    /\ UNCHANGED started
    /\ LET d == validateDaysAgo(req[p].daysAgo)
           l == validateLocale(req[p].locale)
       IN  IF req[p].method # "GET"
           THEN Reject(p, StatusMethodNotAllowed, "Method not allowed")
           ELSE IF d.err # Nil
           THEN Reject(p, StatusBadRequest, d.err)
           ELSE IF l.err # Nil
           THEN Reject(p, StatusBadRequest, l.err)
           ELSE Step1Get(p, <<l.locale, d.daysAgo>>)

\* the fast path answers whatever the analysis cache returned
FastPathHitAlways(a) == TRUE

\* the test of the fast path on what analysisCache.Get returned
FastPathHit(a) == a # Nil

\* Step 1, second half: analysisCache.Get(reqEntry.ImageHash); a hit answers
\* the request from the two entries (buildColorTheme).
Step1(p) ==
    /\ pc[p] = "s1"
    /\ AnalysisRLock
    /\ LET a == AnalysisGet(reqEntry[p].ImageHash) IN
       IF FastPathHit(a)
       THEN /\ pc' = [pc EXCEPT ![p] = "done"]
            /\ path' = [path EXCEPT ![p] = "fast"]
            /\ colors' = [colors EXCEPT ![p] = a]
            /\ info' = [info EXCEPT ![p] = reqEntry[p].Info]
       ELSE /\ pc' = [pc EXCEPT ![p] = "s2"]
            /\ UNCHANGED <<path, colors, info>>
    /\ UNCHANGED <<now, feed, started, market, shared, key, reqEntry, checkedAt,
                   imageHash, imageMutex, did>>
    /\ UNCHANGED counts
    /\ UNCHANGED <<files, crashes, body>>
    /\ UNCHANGED fine
    /\ UNCHANGED more

\* Step 2: app.bingClient.SetLocale(locale) on the shared client.
SetLocale(p) ==
    /\ pc[p] = "s2"
    /\ market' = key[p][1]
    /\ pc' = [pc EXCEPT ![p] = "fetch"]
    /\ UNCHANGED <<now, feed, started, shared, key, reqEntry, checkedAt, info,
                   imageHash, imageMutex, colors, path, did>>
    /\ UNCHANGED counts
    /\ UNCHANGED <<files, crashes, body>>
    /\ UNCHANGED fine
    /\ UNCHANGED more

\* Step 2: GetWallpaperByDaysAgo succeeds: the feed, asked with c.market,
\* answers with the image img it serves now; step 3 hashes the bytes.
FetchOk(p, img) ==
    /\ pc[p] = "fetch"
    /\ img = feed[<<market, key[p][2]>>]
    /\ info' = [info EXCEPT ![p] = [img |-> img, mkt |-> market]]
    /\ imageHash' = [imageHash EXCEPT ![p] = HashImage(img)]
    /\ did' = [did EXCEPT ![p] = @ \cup {"feed"}]
    /\ pc' = [pc EXCEPT ![p] = "s4"]
    /\ UNCHANGED <<now, feed, started, market, shared, key, reqEntry, checkedAt,
                   imageMutex, colors, path>>
    /\ UNCHANGED counts
    /\ UNCHANGED <<files, crashes, body>>
    /\ UNCHANGED fine
    /\ fetchedAt' = [fetchedAt EXCEPT ![p] = now]
    /\ UNCHANGED <<requestMu, gone>>

\* the failed download keeps the old entry of the key alive for another hour
FetchFailRefreshes(p, err) ==
    /\ pc[p] = "fetch"
    /\ did' = [did EXCEPT ![p] = @ \cup {"feed"}]
    /\ pc' = [pc EXCEPT ![p] = "done"]
    /\ path' = [path EXCEPT ![p] = "upstreamErr"]
    /\ body' = [body EXCEPT ![p] = ErrorBody("Failed to download wallpaper", err)]
    /\ requestData' = IF reqEntry[p] # NoEntry
                      THEN RequestSet(requestData, key[p], reqEntry[p].ImageHash,
                                      reqEntry[p].Info, getNextHourBoundary(now))
                      ELSE requestData
    /\ UNCHANGED <<now, feed, started, market, analysisData, processing,
                   mutexHolder, key, reqEntry, checkedAt, info,
                   imageHash, imageMutex, colors>>
    /\ UNCHANGED counts
    /\ UNCHANGED <<files, crashes>>
    /\ UNCHANGED fine
    /\ UNCHANGED more

\* Step 2: the download fails with the error err; the request ends with a
\* 500 whose body is made from err.
FetchFail(p, err) ==
    /\ pc[p] = "fetch"
    /\ did' = [did EXCEPT ![p] = @ \cup {"feed"}]
    /\ pc' = [pc EXCEPT ![p] = "done"]
    /\ path' = [path EXCEPT ![p] = "upstreamErr"]
    /\ body' = [body EXCEPT ![p] = ErrorBody("Failed to download wallpaper", err)]
    /\ UNCHANGED <<now, feed, started, market, shared, key, reqEntry, checkedAt, info,
                   imageHash, imageMutex, colors>>
    /\ UNCHANGED counts
    /\ UNCHANGED <<files, crashes>>
    /\ UNCHANGED fine
    /\ UNCHANGED more

\* requestCache.Set(locale, daysAgo, imageHash, info..., expiresAt) of steps
\* 4, 6 and 9, with expiresAt := getNextHourBoundary(); an error of the
\* file write is logged and the handler goes on.
CacheRequest(p, ok) ==
    LET expiresAt == getNextHourBoundary(now) IN
    /\ requestData' = RequestSetResult(requestData, key[p], imageHash[p],
                                       info[p], expiresAt, ok)
    /\ requestFiles' = RequestSave(requestFiles,
                            NewRequestEntry(key[p], imageHash[p], info[p], expiresAt),
                            ok)
    /\ diskFaults' = IF ok THEN diskFaults ELSE diskFaults - 1
    /\ unsavedKeys' = IF ok THEN unsavedKeys \ {key[p]}
                             ELSE unsavedKeys \cup {key[p]}
    /\ did' = [did EXCEPT ![p] =
                  @ \cup {"reqSet"} \cup (IF ok THEN {} ELSE {"reqSaveErr"})]

\* Step 4: analysisCache.Get(imageHash); on a hit the request entry is
\* written and the stored palette returned.
Step4(p) ==
    /\ pc[p] = "s4"
    /\ AnalysisRLock
    /\ LET a == PreLockCheck(p) IN
       IF a # Nil
       THEN /\ \E ok \in WriteOutcomes : CacheRequest(p, ok)
            /\ colors' = [colors EXCEPT ![p] = a]
            /\ path' = [path EXCEPT ![p] = "cross"]
            /\ pc' = [pc EXCEPT ![p] = "done"]
       ELSE /\ pc' = [pc EXCEPT ![p] = "s5"]
            /\ UNCHANGED <<requestData, did, colors, path, requestFiles,
                           diskFaults, unsavedKeys>>
    /\ UNCHANGED <<now, feed, started, market, analysisData, processing, mutexHolder,
                   key, reqEntry, checkedAt, info, imageHash, imageMutex>>
    /\ UNCHANGED counts
    /\ UNCHANGED <<analysisFiles, unsaved, crashes, body>>
    /\ UNCHANGED fine
    /\ UNCHANGED more

\* Step 5: AnalysisCache.GetMutex(imageHash), lookup or create under
\* processingL.
GetMutex(p) ==
    /\ pc[p] = "s5"
    /\ LET mu == ProcessingLookup(imageHash[p]) IN
       IF mu # NoMutex
       THEN /\ imageMutex' = [imageMutex EXCEPT ![p] = mu]
            /\ UNCHANGED <<processing, mutexHolder>>
       ELSE /\ mutexHolder' = Append(mutexHolder, NoProc)
            /\ processing' = [processing EXCEPT ![imageHash[p]] = Len(mutexHolder) + 1]
            /\ imageMutex' = [imageMutex EXCEPT ![p] = Len(mutexHolder) + 1]
    /\ pc' = [pc EXCEPT ![p] = "lock"]
    /\ UNCHANGED <<now, feed, started, market, requestData, analysisData, key,
                   reqEntry, checkedAt, info, imageHash, colors, path, did>>
    /\ UNCHANGED counts
    /\ UNCHANGED <<files, crashes, body>>
    /\ UNCHANGED fine
    /\ UNCHANGED more

\* nothing keeps a second goroutine out of GetMutex
RegistryFreeAlways == TRUE

\* c.processingL.Lock() returns: no goroutine is inside GetMutex
RegistryFree == processingL = NoProc

\* GetMutex statement by statement.  First c.processingL.Lock().
RegistryEnter(p) ==
    /\ pc[p] = "s5"
    /\ RegistryFree
    /\ processingL' = p
    /\ pc' = [pc EXCEPT ![p] = "reg"]
    /\ UNCHANGED <<now, feed, started, market, shared, key, reqEntry, checkedAt,
                   info, imageHash, imageMutex, colors, path, did>>
    /\ UNCHANGED counts
    /\ UNCHANGED <<files, crashes, body, req, analysisMu>>
    /\ UNCHANGED more

\* Then the lookup c.processing[imageHash]; a mutex found is returned, and
\* the deferred c.processingL.Unlock() runs.
RegistryLookup(p) ==
    /\ pc[p] = "reg"
    /\ LET m == ProcessingLookup(imageHash[p]) IN
       IF m # NoMutex
       THEN /\ imageMutex' = [imageMutex EXCEPT ![p] = m]
            /\ processingL' = NoProc
            /\ pc' = [pc EXCEPT ![p] = "lock"]
       ELSE /\ pc' = [pc EXCEPT ![p] = "regnew"]
            /\ UNCHANGED <<imageMutex, processingL>>
    /\ UNCHANGED <<now, feed, started, market, shared, key, reqEntry, checkedAt,
                   info, imageHash, colors, path, did>>
    /\ UNCHANGED counts
    /\ UNCHANGED <<files, crashes, body, req, analysisMu>>
    /\ UNCHANGED more

\* Nothing found: a new mutex is made, stored in c.processing and
\* returned, and the deferred c.processingL.Unlock() runs.
RegistryInsert(p) ==
    /\ pc[p] = "regnew"
    /\ mutexHolder' = Append(mutexHolder, NoProc)
    /\ processing' = [processing EXCEPT ![imageHash[p]] = Len(mutexHolder) + 1]
    /\ imageMutex' = [imageMutex EXCEPT ![p] = Len(mutexHolder) + 1]
    /\ processingL' = NoProc
    /\ pc' = [pc EXCEPT ![p] = "lock"]
    /\ UNCHANGED <<now, feed, started, market, requestData, analysisData, key,
                   reqEntry, checkedAt, info, imageHash, colors, path, did>>
    /\ UNCHANGED counts
    /\ UNCHANGED <<files, crashes, body, req, analysisMu>>
    /\ UNCHANGED more

\* Step 5: imageMutex.Lock() returns once the mutex is free.
Lock(p) ==
    /\ pc[p] = "lock"
    /\ mutexHolder[imageMutex[p]] = NoProc
    /\ mutexHolder' = [mutexHolder EXCEPT ![imageMutex[p]] = p]
    /\ did' = [did EXCEPT ![p] = @ \cup {"lock"}]
    /\ pc' = [pc EXCEPT ![p] = "s6"]
    /\ UNCHANGED <<now, feed, started, market, requestData, analysisData, processing,
                   key, reqEntry, checkedAt, info, imageHash, imageMutex,
                   colors, path>>
    /\ UNCHANGED counts
    /\ UNCHANGED <<files, crashes, body>>
    /\ UNCHANGED fine
    /\ UNCHANGED more

\* AnalysisCache.ReleaseMutex(imageHash), deferred in step 5: the registry
\* keeps every mutex it has created.
ReleaseMutex(reg, hash) == reg

\* the mutex is not unlocked at return
DeferredNoUnlock(p) ==
    /\ processing' = ReleaseMutex(processing, imageHash[p])
    /\ UNCHANGED mutexHolder

\* the mutex is taken out of the registry at return
DeferredDeletes(p) ==
    /\ processing' = [processing EXCEPT ![imageHash[p]] = NoMutex]
    /\ mutexHolder' = [mutexHolder EXCEPT ![imageMutex[p]] = NoProc]

\* The deferred calls of step 5, run at return: ReleaseMutex, then Unlock.
Deferred(p) ==
    /\ processing' = ReleaseMutex(processing, imageHash[p])
    /\ mutexHolder' = [mutexHolder EXCEPT ![imageMutex[p]] = NoProc]

\* Step 6: the second analysisCache.Get, under the lock; on a hit the
\* request entry is written and the stored palette returned; on a miss the
\* AI call of step 7 starts.
Step6(p) ==
    /\ pc[p] = "s6"
    /\ AnalysisRLock
    /\ LET a == DoubleCheck(p) IN
       IF a # Nil
       THEN /\ \E ok \in WriteOutcomes : CacheRequest(p, ok)
            /\ colors' = [colors EXCEPT ![p] = a]
            /\ path' = [path EXCEPT ![p] = "recheck"]
            /\ pc' = [pc EXCEPT ![p] = "done"]
            /\ Deferred(p)
            /\ UNCHANGED aiCalls
       ELSE /\ pc' = [pc EXCEPT ![p] = "ai"]
            /\ did' = [did EXCEPT ![p] = @ \cup {"ai"}]
            /\ aiCalls' = [aiCalls EXCEPT ![imageHash[p]] = @ + 1]
            /\ UNCHANGED <<requestData, colors, path, processing, mutexHolder,
                           requestFiles, diskFaults, unsavedKeys>>
    /\ UNCHANGED <<now, feed, started, market, analysisData, key, reqEntry, checkedAt,
                   info, imageHash, imageMutex>>
    /\ UNCHANGED aiFails
    /\ UNCHANGED <<analysisFiles, unsaved, crashes, body>>
    /\ UNCHANGED fine
    /\ UNCHANGED more

\* the return after the error is missing its guard: the request entry is
\* written although there is no palette
AIFailCaches(p, err) ==
    /\ pc[p] = "ai"
    /\ path' = [path EXCEPT ![p] = "analysisErr"]
    /\ pc' = [pc EXCEPT ![p] = "done"]
    /\ Deferred(p)
    /\ requestData' = RequestSet(requestData, key[p], imageHash[p], info[p],
                                 getNextHourBoundary(now))
    /\ UNCHANGED <<now, feed, started, market, analysisData, key,
                   reqEntry, checkedAt, info, imageHash, imageMutex, colors,
                   did>>
    /\ aiFails' = [aiFails EXCEPT ![imageHash[p]] = @ + 1]
    /\ UNCHANGED aiCalls
    /\ body' = [body EXCEPT ![p] = ErrorBody("Failed to analyze colors", err)]
    /\ UNCHANGED <<files, crashes>>
    /\ UNCHANGED fine
    /\ UNCHANGED more

\* Step 7: AnalyzeColors returns the error err; 500 with a body made from
\* err, and the deferred calls run.
AIFail(p, err) ==
    /\ pc[p] = "ai"
    /\ path' = [path EXCEPT ![p] = "analysisErr"]
    /\ pc' = [pc EXCEPT ![p] = "done"]
    /\ Deferred(p)
    /\ UNCHANGED <<now, feed, started, market, requestData, analysisData, key,
                   reqEntry, checkedAt, info, imageHash, imageMutex, colors,
                   did>>
    /\ aiFails' = [aiFails EXCEPT ![imageHash[p]] = @ + 1]
    /\ UNCHANGED aiCalls
    /\ body' = [body EXCEPT ![p] = ErrorBody("Failed to analyze colors", err)]
    /\ UNCHANGED <<files, crashes>>
    /\ UNCHANGED fine
    /\ UNCHANGED more

\* Steps 7 and 8: AnalyzeColors returns a palette, analysisCache.Set stores it.
AIOk(p, cols) ==
    /\ pc[p] = "ai"
    /\ colors' = [colors EXCEPT ![p] = cols]
    /\ \E ok \in WriteOutcomes :
          /\ analysisData' = AnalysisSetResult(analysisData, imageHash[p], cols, ok)
          /\ analysisFiles' = AnalysisSave(analysisFiles, imageHash[p], cols, ok)
          /\ diskFaults' = IF ok THEN diskFaults ELSE diskFaults - 1
          /\ unsaved' = IF ok THEN unsaved \ {imageHash[p]}
                              ELSE unsaved \cup {imageHash[p]}
          /\ did' = [did EXCEPT ![p] =
                        @ \cup {"anSet"} \cup (IF ok THEN {} ELSE {"anSaveErr"})]
    /\ pc' = [pc EXCEPT ![p] = "s9"]
    /\ UNCHANGED <<now, feed, started, market, requestData, processing, mutexHolder,
                   key, reqEntry, checkedAt, info, imageHash, imageMutex, path>>
    /\ UNCHANGED counts
    /\ UNCHANGED <<requestFiles, unsavedKeys, crashes, body>>
    /\ UNCHANGED fine
    /\ UNCHANGED more

\* Step 7 alone: AnalyzeColors returns the palette cols.
AIReturn(p, cols) ==
    /\ pc[p] = "ai"
    /\ colors' = [colors EXCEPT ![p] = cols]
    /\ pc' = [pc EXCEPT ![p] = "set"]
    /\ UNCHANGED <<now, feed, started, market, shared, key, reqEntry, checkedAt,
                   info, imageHash, imageMutex, path, did>>
    /\ UNCHANGED counts
    /\ UNCHANGED <<files, crashes, body>>
    /\ UNCHANGED fine
    /\ UNCHANGED more

\* AnalysisCache.Set statement by statement.  First c.mu.Lock(), then
\* c.data[imageHash] = entry.
SetLock(p) ==
    /\ pc[p] = "set"
    /\ analysisMu = NoProc
    /\ analysisMu' = p
    /\ analysisData' = AnalysisSet(analysisData, imageHash[p], colors[p])
    /\ pc' = [pc EXCEPT ![p] = "save"]
    /\ UNCHANGED <<now, feed, started, market, requestData, processing,
                   mutexHolder, key, reqEntry, checkedAt, info, imageHash,
                   imageMutex, colors, path, did>>
    /\ UNCHANGED counts
    /\ UNCHANGED <<files, crashes, body, req, processingL>>
    /\ UNCHANGED more

\* Then c.saveToFile(entry), and the deferred c.mu.Unlock() at the return.
SetSave(p) ==
    /\ pc[p] = "save"
    /\ \E ok \in WriteOutcomes :
          /\ analysisFiles' = AnalysisSave(analysisFiles, imageHash[p], colors[p], ok)
          /\ diskFaults' = IF ok THEN diskFaults ELSE diskFaults - 1
          /\ unsaved' = IF ok THEN unsaved \ {imageHash[p]}
                              ELSE unsaved \cup {imageHash[p]}
          /\ did' = [did EXCEPT ![p] =
                        @ \cup {"anSet"} \cup (IF ok THEN {} ELSE {"anSaveErr"})]
    /\ analysisMu' = NoProc
    /\ pc' = [pc EXCEPT ![p] = "s9"]
    /\ UNCHANGED <<now, feed, started, market, shared, key, reqEntry, checkedAt,
                   info, imageHash, imageMutex, colors, path>>
    /\ UNCHANGED counts
    /\ UNCHANGED <<requestFiles, unsavedKeys, crashes, body, req, processingL>>
    /\ UNCHANGED more

\* Steps 9 and 10: requestCache.Set, the response, and the deferred calls.
Step9(p) ==
    /\ pc[p] = "s9"
    /\ \E ok \in WriteOutcomes : CacheRequest(p, ok)
    /\ path' = [path EXCEPT ![p] = "computed"]
    /\ pc' = [pc EXCEPT ![p] = "done"]
    /\ Deferred(p)
    /\ UNCHANGED <<now, feed, started, market, analysisData, key, reqEntry, checkedAt,
                   info, imageHash, imageMutex, colors>>
    /\ UNCHANGED counts
    /\ UNCHANGED <<analysisFiles, unsaved, crashes, body>>
    /\ UNCHANGED fine
    /\ UNCHANGED more

\* The handler has returned; its goroutine ends and a later request gets a
\* fresh one, with fresh locals.
Return(p) ==
    /\ pc[p] = "done"
    /\ pc' = [pc EXCEPT ![p] = "idle"]
    /\ key' = [key EXCEPT ![p] = NoKey]
    /\ reqEntry' = [reqEntry EXCEPT ![p] = NoEntry]
    /\ checkedAt' = [checkedAt EXCEPT ![p] = 0]
    /\ info' = [info EXCEPT ![p] = NoInfo]
    /\ imageHash' = [imageHash EXCEPT ![p] = Nil]
    /\ imageMutex' = [imageMutex EXCEPT ![p] = NoMutex]
    /\ colors' = [colors EXCEPT ![p] = Nil]
    /\ path' = [path EXCEPT ![p] = "none"]
    /\ did' = [did EXCEPT ![p] = {}]
    /\ body' = [body EXCEPT ![p] = NoBody]
    /\ UNCHANGED <<now, feed, started, market, shared>>
    /\ UNCHANGED counts
    /\ UNCHANGED <<files, crashes>>
    /\ req' = [req EXCEPT ![p] = NoRequest]
    /\ UNCHANGED <<processingL, analysisMu>>
    /\ gone' = gone \ {p}
    /\ fetchedAt' = [fetchedAt EXCEPT ![p] = 0]
    /\ UNCHANGED requestMu

\* The clock advances; at the top of an hour Bing may serve other images.
Tick ==
    /\ now < MaxTime
    /\ now' = now + 1
    /\ IF (now + 1) % Hour = 0 THEN feed' \in [Keys -> Images] ELSE feed' = feed
    /\ UNCHANGED <<started, market, shared, pc, key, reqEntry, checkedAt, info,
                   imageHash, imageMutex, colors, path, did>>
    /\ UNCHANGED counts
    /\ UNCHANGED <<files, crashes, body>>
    /\ UNCHANGED fine
    /\ UNCHANGED more

Next ==
    \/ \E p \in Procs, k \in Keys : Begin(p, k)
    \/ \E p \in Procs : Step1(p)
    \/ \E p \in Procs : SetLocale(p)
    \/ \E p \in Procs : \E img \in Images : FetchOk(p, img)
    \/ \E p \in Procs : FetchFail(p, "failed to fetch from Bing API")
    \/ \E p \in Procs : Step4(p)
    \/ \E p \in Procs : GetMutex(p)
    \/ \E p \in Procs : Lock(p)
    \/ \E p \in Procs : Step6(p)
    \/ \E p \in Procs : AIFail(p, "no response from AI model")
    \/ \E p \in Procs : \E cols \in Palettes : AIOk(p, cols)
    \/ \E p \in Procs : Step9(p)
    \/ \E p \in Procs : Return(p)
    \/ Tick

Spec == Init /\ [][Next]_vars

\* The process is killed, at any point of any request, and started again:
\* main builds empty caches, an empty mutex registry and a new Bing client
\* with the default locale, and LoadAll reads the cache files back.
Restart ==
    /\ crashes < MaxCrashes
    /\ crashes' = crashes + 1
    /\ requestData' = RequestLoadAll(requestFiles)
    /\ analysisData' = AnalysisLoadAll(analysisFiles)
    /\ processing' = [h \in Hashes |-> NoMutex]
    /\ mutexHolder' = << >>
    /\ market' = "en-US"
    /\ pc' = [p \in Procs |-> "idle"]
    /\ key' = [p \in Procs |-> NoKey]
    /\ reqEntry' = [p \in Procs |-> NoEntry]
    /\ checkedAt' = [p \in Procs |-> 0]
    /\ info' = [p \in Procs |-> NoInfo]
    /\ imageHash' = [p \in Procs |-> Nil]
    /\ imageMutex' = [p \in Procs |-> NoMutex]
    /\ colors' = [p \in Procs |-> Nil]
    /\ path' = [p \in Procs |-> "none"]
    /\ did' = [p \in Procs |-> {}]
    /\ body' = [p \in Procs |-> NoBody]
    /\ aiCalls' = [h \in Hashes |-> 0]
    /\ aiFails' = [h \in Hashes |-> 0]
    /\ UNCHANGED <<now, feed, started, files>>
    /\ req' = [p \in Procs |-> NoRequest]
    /\ processingL' = NoProc
    /\ analysisMu' = NoProc
    /\ requestMu' = NoProc
    /\ gone' = {}
    /\ fetchedAt' = [p \in Procs |-> 0]

\* The service within one hour (the clock does not reach the next hour
\* boundary), on a disk that may fail and with restarts of the process.
NextFaults ==
    \/ \E p \in Procs, k \in Keys : Begin(p, k)
    \/ \E p \in Procs : Step1(p)
    \/ \E p \in Procs : SetLocale(p)
    \/ \E p \in Procs : \E img \in Images : FetchOk(p, img)
    \/ \E p \in Procs : \E err \in FeedErrors : FetchFail(p, err)
    \/ \E p \in Procs : Step4(p)
    \/ \E p \in Procs : GetMutex(p)
    \/ \E p \in Procs : Lock(p)
    \/ \E p \in Procs : Step6(p)
    \/ \E p \in Procs : \E err \in AIErrors : AIFail(p, err)
    \/ \E p \in Procs : \E cols \in Palettes : AIOk(p, cols)
    \/ \E p \in Procs : Step9(p)
    \/ \E p \in Procs : Return(p)
    \/ Restart

SpecFaults == InitFaults /\ [][NextFaults]_vars

\* The handler from the arrival of the request on, with GetMutex and
\* AnalysisCache.Set taken statement by statement; within one hour, on a
\* disk that takes every write.
NextHandler ==
    \/ \E p \in Procs : \E r \in Requests : Receive(p, r)
    \/ \E p \in Procs : Validate(p)
    \/ \E p \in Procs : Step1(p)
    \/ \E p \in Procs : SetLocale(p)
    \/ \E p \in Procs : \E img \in Images : FetchOk(p, img)
    \/ \E p \in Procs : FetchFail(p, "failed to fetch from Bing API")
    \/ \E p \in Procs : Step4(p)
    \/ \E p \in Procs : RegistryEnter(p)
    \/ \E p \in Procs : RegistryLookup(p)
    \/ \E p \in Procs : RegistryInsert(p)
    \/ \E p \in Procs : Lock(p)
    \/ \E p \in Procs : Step6(p)
    \/ \E p \in Procs : AIFail(p, "no response from AI model")
    \/ \E p \in Procs : \E cols \in Palettes : AIReturn(p, cols)
    \/ \E p \in Procs : SetLock(p)
    \/ \E p \in Procs : SetSave(p)
    \/ \E p \in Procs : Step9(p)
    \/ \E p \in Procs : Return(p)

SpecHandler == Init /\ [][NextHandler]_vars

\* what a file of the request directory may hold when the process starts:
\* nothing, an entry written by saveToFile in an earlier run, or damage
RequestFileStates(f) ==
    {NoRequestFile, UnreadableRequestFile, GarbledRequestFile} \cup
    {MarshalRequest(NewRequestEntry(f, HashImage(i), [img |-> i, mkt |-> f[1]], Hour)) :
        i \in Images}

AnalysisFileStates(f) ==
    {NoAnalysisFile, UnreadableAnalysisFile, GarbledAnalysisFile} \cup
    {MarshalAnalysis(f, c) : c \in Palettes}

\* the cache directories as earlier runs and accidents left them: missing,
\* or holding any mix of good and damaged files
RequestDirs ==
    {NoDirectory} \cup
    {fs \in [Keys -> UNION {RequestFileStates(f) : f \in Keys}] :
        \A f \in Keys : fs[f] \in RequestFileStates(f)}

AnalysisDirs ==
    {NoDirectory} \cup
    {fs \in [Hashes -> UNION {AnalysisFileStates(f) : f \in Hashes}] :
        \A f \in Hashes : fs[f] \in AnalysisFileStates(f)}

\* The process is about to be started on such directories.
InitLoad ==
    /\ Memory
    /\ diskFaults = 0
    /\ requestFiles \in RequestDirs
    /\ analysisFiles \in AnalysisDirs

\* Start-up alone: main builds the caches and LoadAll fills them.
NextLoad == Restart

SpecLoad == InitLoad /\ [][NextLoad]_vars

\* the client closes the connection and the handler goes on as if nothing
\* had happened, holding what it holds
DisconnectAborts(p) ==
    /\ pc[p] \notin {"idle", "done"}
    /\ p \notin gone
    /\ gone' = gone \cup {p}
    /\ pc' = [pc EXCEPT ![p] = "done"]
    /\ path' = [path EXCEPT ![p] = "aborted"]
    /\ UNCHANGED <<now, feed, started, market, key, reqEntry, checkedAt, info,
                   imageHash, imageMutex, colors, did, crashes, body,
                   requestMu, fetchedAt>>
    /\ UNCHANGED <<shared, counts, files, fine>>

\* The client closes the connection while its request is being served.
\* handleGetColors never reads r.Context(), and neither the feed client nor
\* the analyzer is given it: no step of the handler depends on the
\* connection, and the request goes on from where it is.
Disconnect(p) ==
    /\ pc[p] \notin {"idle", "done"}
    /\ p \notin gone
    /\ gone' = gone \cup {p}
    /\ UNCHANGED <<now, feed, started, market, pc, key, reqEntry, checkedAt,
                   info, imageHash, imageMutex, colors, path, did, crashes,
                   body, requestMu, fetchedAt>>
    /\ UNCHANGED <<shared, counts, files, fine>>

\* the steps of one request that wait for nothing but the scheduler, the
\* feed or the analyzer
HandlerStep(p) ==
    \/ Step1(p)
    \/ SetLocale(p)
    \/ \E img \in Images : FetchOk(p, img)
    \/ FetchFail(p, "failed to fetch from Bing API")
    \/ Step4(p)
    \/ GetMutex(p)
    \/ Step6(p)
    \/ AIFail(p, "no response from AI model")
    \/ \E cols \in Palettes : AIOk(p, cols)
    \/ Step9(p)
    \/ Return(p)

\* Requests within one hour on a disk that takes every write, with clients
\* that may close the connection at any point of their request.
NextLive ==
    \/ \E p \in Procs, k \in Keys : Begin(p, k)
    \/ \E p \in Procs : HandlerStep(p)
    \/ \E p \in Procs : Lock(p)
    \/ \E p \in Procs : Disconnect(p)

\* Every goroutine is scheduled again and again; the feed client and the
\* analyzer client have timeouts, so each of their calls returns; a
\* sync.Mutex hands the lock to a waiter that has waited long (starvation
\* mode), so a request for which the mutex is free again and again gets it.
Fairness ==
    \A p \in Procs : WF_vars(HandlerStep(p)) /\ SF_vars(Lock(p))

SpecLive == Init /\ [][NextLive]_vars /\ Fairness

\* c.mu.Lock() of RequestCache.Set never waits
RequestMuFreeAlways == TRUE

\* c.mu.Lock() of RequestCache.Set returns when nobody holds the lock
RequestMuFree == requestMu = NoProc

\* A goroutine calls RequestCache.Set(locale, daysAgo, imageHash, ...,
\* expiresAt) with the data of an image of the feed.
RequestSetCall(p, k, img) ==
    /\ pc[p] = "idle"
    /\ started < MaxRequests
    /\ started' = started + 1
    /\ key' = [key EXCEPT ![p] = k]
    /\ info' = [info EXCEPT ![p] = [img |-> img, mkt |-> k[1]]]
    /\ imageHash' = [imageHash EXCEPT ![p] = HashImage(img)]
    /\ pc' = [pc EXCEPT ![p] = "rset"]
    /\ UNCHANGED <<now, feed, market, reqEntry, checkedAt, imageMutex, colors,
                   path, did, crashes, body>>
    /\ UNCHANGED <<shared, counts, files, fine, more>>

\* RequestCache.Set: c.mu.Lock(), the new entry, c.data[key] = entry.
RequestSetLock(p) ==
    /\ pc[p] = "rset"
    /\ RequestMuFree
    /\ requestMu' = p
    /\ requestData' = RequestSet(requestData, key[p], imageHash[p], info[p],
                                 getNextHourBoundary(now))
    /\ pc' = [pc EXCEPT ![p] = "rsave"]
    /\ UNCHANGED <<now, feed, started, market, analysisData, processing,
                   mutexHolder, key, reqEntry, checkedAt, info, imageHash,
                   imageMutex, colors, path, did, crashes, body, gone, fetchedAt>>
    /\ UNCHANGED <<counts, files, fine>>

\* Then c.saveToFile(entry) and the deferred c.mu.Unlock() at the return.
RequestSetSave(p) ==
    /\ pc[p] = "rsave"
    /\ requestFiles' = RequestSave(requestFiles,
                            NewRequestEntry(key[p], imageHash[p], info[p],
                                            getNextHourBoundary(now)),
                            TRUE)
    /\ requestMu' = NoProc
    /\ did' = [did EXCEPT ![p] = @ \cup {"reqSet"}]
    /\ path' = [path EXCEPT ![p] = "stored"]
    /\ pc' = [pc EXCEPT ![p] = "done"]
    /\ UNCHANGED <<now, feed, started, market, key, reqEntry, checkedAt, info,
                   imageHash, imageMutex, colors, crashes, body, gone, fetchedAt>>
    /\ UNCHANGED <<analysisFiles, diskFaults, unsaved, unsavedKeys>>
    /\ UNCHANGED <<shared, counts, fine>>

\* A goroutine calls AnalysisCache.Set(imageHash, colors).
AnalysisSetCall(p, hash, cols) ==
    /\ pc[p] = "idle"
    /\ started < MaxRequests
    /\ started' = started + 1
    /\ imageHash' = [imageHash EXCEPT ![p] = hash]
    /\ colors' = [colors EXCEPT ![p] = cols]
    /\ pc' = [pc EXCEPT ![p] = "aset"]
    /\ UNCHANGED <<now, feed, market, key, reqEntry, checkedAt, info, imageMutex,
                   path, did, crashes, body>>
    /\ UNCHANGED <<shared, counts, files, fine, more>>

\* AnalysisCache.Set: c.mu.Lock(), the new entry, c.data[imageHash] = entry.
AnalysisSetLock(p) ==
    /\ pc[p] = "aset"
    /\ AnalysisRLock
    /\ analysisMu' = p
    /\ analysisData' = AnalysisSet(analysisData, imageHash[p], colors[p])
    /\ pc' = [pc EXCEPT ![p] = "asave"]
    /\ UNCHANGED <<now, feed, started, market, requestData, processing,
                   mutexHolder, key, reqEntry, checkedAt, info, imageHash,
                   imageMutex, colors, path, did, crashes, body, req, processingL>>
    /\ UNCHANGED <<counts, files, more>>

\* Then c.saveToFile(entry) and the deferred c.mu.Unlock() at the return.
AnalysisSetSave(p) ==
    /\ pc[p] = "asave"
    /\ analysisFiles' = AnalysisSave(analysisFiles, imageHash[p], colors[p], TRUE)
    /\ analysisMu' = NoProc
    /\ did' = [did EXCEPT ![p] = @ \cup {"anSet"}]
    /\ path' = [path EXCEPT ![p] = "stored"]
    /\ pc' = [pc EXCEPT ![p] = "done"]
    /\ UNCHANGED <<now, feed, started, market, key, reqEntry, checkedAt, info,
                   imageHash, imageMutex, colors, crashes, body, req, processingL>>
    /\ UNCHANGED <<requestFiles, diskFaults, unsaved, unsavedKeys>>
    /\ UNCHANGED <<shared, counts, more>>

\* Goroutines calling Set of the two caches at the same time, as the
\* concurrency tests of the cache package do, on a disk that takes every
\* write.
NextStore ==
    \/ \E p \in Procs, k \in Keys, img \in Images : RequestSetCall(p, k, img)
    \/ \E p \in Procs : RequestSetLock(p)
    \/ \E p \in Procs : RequestSetSave(p)
    \/ \E p \in Procs, hash \in Hashes, cols \in Palettes : AnalysisSetCall(p, hash, cols)
    \/ \E p \in Procs : AnalysisSetLock(p)
    \/ \E p \in Procs : AnalysisSetSave(p)
    \/ \E p \in Procs : Return(p)

SpecStore == Init /\ [][NextStore]_vars

TypeOK ==
    /\ now \in 0..MaxTime
    /\ diskFaults \in 0..MaxDiskFaults
    /\ crashes \in 0..MaxCrashes
    /\ unsaved \subseteq Hashes
    /\ market \in Locales
    /\ \A p \in Procs : pc[p] \in {"idle", "validate", "s1", "s2", "fetch",
                                   "s4", "s5", "reg", "regnew", "lock", "s6",
                                   "ai", "set", "save", "s9", "done",
                                   "rset", "rsave", "aset", "asave"}
    /\ processingL \in Procs \cup {NoProc}
    /\ analysisMu \in Procs \cup {NoProc}
    /\ requestMu \in Procs \cup {NoProc}
    /\ gone \subseteq Procs
    /\ fetchedAt \in [Procs -> 0..MaxTime]

\* ------------------------------------------------------------ properties

\* the request was answered with a palette (HTTP 200)
Succeeded(p) == pc[p] = "done" /\ path[p] \in {"fast", "cross", "recheck", "computed"}

\* the request holds its image mutex
HoldsLock(p) == pc[p] \in {"s6", "ai", "set", "save", "s9"}

\* the request found no entry for its key in step 1
Cold(p) == pc[p] # "idle" /\ reqEntry[p] = NoEntry

\* C1: at most one AnalyzeColors call is in flight for one image hash at
\* any time, whatever keys the requests are for.
C1_OneAnalysisInFlight ==
    \A p, q \in Procs :
        (p # q /\ pc[p] = "ai" /\ pc[q] = "ai") => imageHash[p] # imageHash[q]

\* C1 witness: an analysis is in flight while another request for the same
\* image waits for the mutex.
C1_Witness ==
    \E p, q \in Procs :
        /\ pc[p] = "ai" /\ pc[q] = "lock"
        /\ imageHash[p] = imageHash[q]
        /\ mutexHolder[imageMutex[q]] = p

\* C2 as stated: of the requests for one image hash, starting without an
\* analysis entry, exactly one calls the analyzer (never a second call).
C2_ExactlyOneInvokes ==
    \A h \in Hashes : aiCalls[h] <= 1

\* C2 amended: per image hash at most one AnalyzeColors call is pending or
\* has returned a palette, every other call returned an error; a request
\* answered with a palette it did not compute never called the analyzer and
\* got the palette the one successful call stored.
C2_OneSuccessfulAnalysis ==
    /\ \A h \in Hashes :
          /\ aiFails[h] <= aiCalls[h]
          /\ aiCalls[h] - aiFails[h] <= 1
          /\ analysisData[h] # Nil <=>
                /\ aiCalls[h] - aiFails[h] = 1
                /\ \A p \in Procs : ~(pc[p] = "ai" /\ imageHash[p] = h)
    /\ \A p \in Procs :
          (Succeeded(p) /\ path[p] \in {"cross", "recheck"}) =>
              /\ "ai" \notin did[p]
              /\ aiCalls[imageHash[p]] - aiFails[imageHash[p]] = 1
              /\ colors[p] = analysisData[imageHash[p]]

\* C2 witness: two requests for different keys downloaded the same image;
\* one computed the palette, the other got it in the check under the lock.
C2_Witness ==
    \E p, q \in Procs :
        /\ key[p] # key[q] /\ imageHash[p] = imageHash[q]
        /\ Succeeded(p) /\ path[p] = "computed"
        /\ Succeeded(q) /\ path[q] = "recheck"
        /\ aiCalls[imageHash[p]] = 1

\* C3 as stated: requests for one key that both found the cache cold and
\* both succeeded return the same palette.
C3_SameKeySamePalette ==
    \A p, q \in Procs :
        (Succeeded(p) /\ Succeeded(q) /\ Cold(p) /\ Cold(q) /\ key[p] = key[q])
            => colors[p] = colors[q]

\* C3 amended: requests for one key that both found the cache cold, both
\* succeeded and downloaded the same image return the same palette.
C3_SameImageSamePalette ==
    \A p, q \in Procs :
        (Succeeded(p) /\ Succeeded(q) /\ Cold(p) /\ Cold(q) /\ key[p] = key[q]
            /\ imageHash[p] = imageHash[q])
            => colors[p] = colors[q]

\* C3 witness: two cold requests for one key and one image, one computed
\* the palette and the other read it under the lock.
C3_Witness ==
    \E p, q \in Procs :
        /\ Cold(p) /\ Cold(q) /\ key[p] = key[q] /\ imageHash[p] = imageHash[q]
        /\ Succeeded(p) /\ path[p] = "computed"
        /\ Succeeded(q) /\ path[q] = "recheck"

\* C4: a request that finds, in step 1, an entry for its key that has not
\* expired is answered on the fast path: no feed call, no AI call, no lock,
\* no store write.
C4_FastPath ==
    \A p \in Procs :
        (reqEntry[p] # NoEntry /\ checkedAt[p] < reqEntry[p].ExpiresAt) =>
            /\ pc[p] \in {"s1", "done"}
            /\ did[p] = {}
            /\ pc[p] = "done" => path[p] = "fast"

\* C4 witness: a request answered on the fast path from a committed entry.
C4_Witness ==
    \E p \in Procs :
        /\ pc[p] = "done" /\ path[p] = "fast"
        /\ requestData[key[p]] # NoEntry
        /\ colors[p] = analysisData[reqEntry[p].ImageHash]

\* C5: an entry whose ExpiresAt is not after the time of the test is never
\* served on the fast path, even when its analysis entry exists; the request
\* downloads from the feed again.
C5_NoStaleHit ==
    \A p \in Procs :
        /\ path[p] = "fast" => checkedAt[p] < reqEntry[p].ExpiresAt
        /\ (reqEntry[p] # NoEntry /\ ~(checkedAt[p] < reqEntry[p].ExpiresAt)) =>
              /\ pc[p] # "s1"
              /\ pc[p] = "done" => "feed" \in did[p]

\* C5 witness: a request found an expired entry whose analysis exists and
\* has finished after asking the feed.
C5_Witness ==
    \E p \in Procs :
        /\ pc[p] = "done"
        /\ reqEntry[p] # NoEntry /\ checkedAt[p] >= reqEntry[p].ExpiresAt
        /\ analysisData[reqEntry[p].ImageHash] # Nil
        /\ "feed" \in did[p]

\* C6: a request that reaches step 4 when the analysis of its image is
\* stored ends there: it returns the stored palette (the palette every
\* other successful request for that image returned), calls no analyzer,
\* takes no lock, and leaves requestData[key] pointing at the image hash.
C6_CrossKeyHit ==
    [][\A p \in Procs :
          (pc[p] = "s4" /\ pc'[p] # "s4" /\ analysisData[imageHash[p]] # Nil) =>
              /\ pc'[p] = "done"
              /\ colors'[p] = analysisData[imageHash[p]]
              /\ did'[p] \cap {"ai", "lock", "anSet"} = {}
              /\ requestData'[key[p]].ImageHash = imageHash[p]
              /\ analysisData' = analysisData /\ aiCalls' = aiCalls
              /\ \A q \in Procs :
                    (q # p /\ Succeeded(q) /\ imageHash[q] = imageHash[p])
                        => colors[q] = colors'[p]
      ]_vars

\* C6 witness: key K1 computed the palette of an image; key K2, resolved
\* afterwards with the same image, was answered in step 4.
C6_Witness ==
    \E p, q \in Procs :
        /\ key[p] # key[q] /\ imageHash[p] = imageHash[q]
        /\ Succeeded(p) /\ path[p] = "computed"
        /\ Succeeded(q) /\ path[q] = "cross"
        /\ colors[p] = colors[q]
        /\ requestData[key[q]].ImageHash = imageHash[p]
        /\ aiCalls[imageHash[p]] = 1

\* C7: no AnalyzeColors call is pending for an image hash whose analysis is
\* stored: once the entry exists nobody computes it again.
C7_NoRecompute ==
    \A p \in Procs : pc[p] = "ai" => analysisData[imageHash[p]] = Nil

\* C7 witness: a request took the lock after the analysis of its image had
\* been stored and finished without calling the analyzer.
C7_Witness ==
    \E p \in Procs :
        /\ pc[p] = "done" /\ path[p] = "recheck"
        /\ "lock" \in did[p] /\ "ai" \notin did[p]
        /\ analysisData[imageHash[p]] # Nil

\* C8: an analysis entry, once written, keeps its palette in every later
\* state: never overwritten with another palette, never deleted.
C8_WrittenOnce ==
    [][\A h \in Hashes : analysisData[h] # Nil => analysisData'[h] = analysisData[h]]_vars

\* C8 witness: both images are analyzed and a request for one of them has
\* since been answered from the store.
C8_Witness ==
    /\ \A h \in Hashes : analysisData[h] # Nil
    /\ \E p \in Procs : Succeeded(p) /\ path[p] # "computed"

\* C9: a request waiting for its image mutex waits only for a holder that
\* works on the same image hash.
C9_PerHashLocks ==
    \A p \in Procs :
        (pc[p] = "lock" /\ mutexHolder[imageMutex[p]] # NoProc) =>
            imageHash[mutexHolder[imageMutex[p]]] = imageHash[p]

\* C9 witness: two requests hold the mutexes of two different images at the
\* same time.
C9_Witness ==
    \E p, q \in Procs :
        /\ HoldsLock(p) /\ HoldsLock(q)
        /\ imageHash[p] # imageHash[q]

\* C10: GetMutex gives all callers with one image hash the same mutex, the
\* registered one, and callers with different hashes different mutexes.
C10_LockIdentity ==
    /\ \A p, q \in Procs :
          (imageMutex[p] # NoMutex /\ imageMutex[q] # NoMutex) =>
              (imageHash[p] = imageHash[q] <=> imageMutex[p] = imageMutex[q])
    /\ \A p \in Procs :
          imageMutex[p] # NoMutex => imageMutex[p] = processing[imageHash[p]]
    /\ \A h1, h2 \in Hashes :
          (h1 # h2 /\ processing[h1] # NoMutex) => processing[h1] # processing[h2]

\* C10 witness: GetMutex was called twice with one hash, both callers got
\* the registered mutex, and another hash has another mutex.
C10_Witness ==
    \E p, q \in Procs : \E h \in Hashes :
        /\ p # q /\ imageMutex[p] # NoMutex /\ imageMutex[p] = imageMutex[q]
        /\ imageHash[p] = imageHash[q] /\ h # imageHash[p]
        /\ processing[h] # NoMutex /\ processing[h] # imageMutex[p]

\* C11: a mutex that is locked is locked by a request that is between Lock
\* and its return; a request that has returned (after the hit under the
\* lock, the AI error or the commit) or has not started holds no mutex.
C11_LockReleased ==
    /\ \A m \in DOMAIN mutexHolder :
          mutexHolder[m] # NoProc =>
              /\ HoldsLock(mutexHolder[m])
              /\ imageMutex[mutexHolder[m]] = m
    /\ \A p \in Procs :
          pc[p] \in {"idle", "done"} =>
              \A m \in DOMAIN mutexHolder : mutexHolder[m] # p

\* C11 witness: one request left on the AI error, the next holder of the
\* same mutex left after the commit, and the mutex is free.
C11_Witness ==
    \E p, q \in Procs :
        /\ pc[p] = "done" /\ path[p] = "analysisErr" /\ "lock" \in did[p]
        /\ pc[q] = "done" /\ path[q] = "computed" /\ "lock" \in did[q]
        /\ imageMutex[p] = imageMutex[q]
        /\ mutexHolder[imageMutex[p]] = NoProc

\* C12: the step in which AnalyzeColors returns an error ends the request
\* with the analysis error and changes neither cache, in memory or on
\* disk; the request has written nothing before it either.
C12_AIFailureWritesNothing ==
    [][\A p \in Procs :
          (pc[p] = "ai" /\ aiFails'[imageHash[p]] # aiFails[imageHash[p]]) =>
              /\ pc'[p] = "done" /\ path'[p] = "analysisErr"
              /\ body'[p][1] = "Failed to analyze colors"
              /\ requestData' = requestData /\ analysisData' = analysisData
              /\ requestFiles' = requestFiles /\ analysisFiles' = analysisFiles
              /\ did'[p] \cap {"anSet", "reqSet"} = {}
      ]_vars

\* C12 witness: a request ended with the analysis error; its key and its
\* image have no entry, while another image, analyzed by another request,
\* has one.
C12_Witness ==
    \E p \in Procs :
        /\ pc[p] = "done" /\ path[p] = "analysisErr"
        /\ requestData[key[p]] = NoEntry
        /\ analysisData[imageHash[p]] = Nil
        /\ \E h \in Hashes : analysisData[h] # Nil

\* C13: the step in which the download fails ends the request with the
\* upstream error and changes neither cache (memory or disk) nor the mutex
\* registry; the request has no mutex and has locked none.
C13_FeedFailureWritesNothing ==
    [][\A p \in Procs :
          (pc[p] = "fetch" /\ pc'[p] = "done") =>
              /\ path'[p] = "upstreamErr"
              /\ body'[p][1] = "Failed to download wallpaper"
              /\ requestData' = requestData /\ analysisData' = analysisData
              /\ requestFiles' = requestFiles /\ analysisFiles' = analysisFiles
              /\ processing' = processing /\ mutexHolder' = mutexHolder
              /\ did'[p] = {"feed"}
              /\ imageMutex'[p] = NoMutex
              /\ \A m \in DOMAIN mutexHolder : mutexHolder'[m] # p
      ]_vars

\* C13 witness: a request that had found an expired entry for its key ended
\* with the upstream error, and the entry is as the request found it.
C13_Witness ==
    \E p \in Procs :
        /\ pc[p] = "done" /\ path[p] = "upstreamErr"
        /\ reqEntry[p] # NoEntry
        /\ requestData[key[p]] = reqEntry[p]
        /\ did[p] = {"feed"}

C15_NoRollback ==
    \A p \in Procs :
        "anSaveErr" \in did[p] =>
            /\ analysisData[imageHash[p]] = colors[p]
            /\ analysisFiles[imageHash[p]] = NoAnalysisFile
            /\ \A q \in Procs :
                  (imageHash[q] = imageHash[p] /\ path[q] \in {"cross", "recheck"})
                      => colors[q] = colors[p]

\* C15 witness: the file write of a palette failed and another request for
\* the same image was answered with that palette from memory.
C15_Witness ==
    \E p, q \in Procs :
        /\ p # q /\ "anSaveErr" \in did[p]
        /\ imageHash[q] = imageHash[p] /\ Succeeded(q)
        /\ path[q] \in {"cross", "recheck"}
        /\ colors[q] = colors[p]
        /\ analysisFiles[imageHash[p]] = NoAnalysisFile

\* C16: a request one of whose file writes failed ends with a 200 and the
\* palette, never with an error body, and leaves both entries in memory:
\* the request entry of its key names an analyzed image.
C16_PersistFailureNotSurfaced ==
    \A p \in Procs :
        (did[p] \cap {"anSaveErr", "reqSaveErr"} # {}) =>
            /\ pc[p] \in {"s9", "done"}
            /\ body[p] = NoBody
            /\ analysisData[imageHash[p]] = colors[p]
            /\ pc[p] = "done" =>
                  /\ Succeeded(p)
                  /\ requestData[key[p]] # NoEntry
                  /\ analysisData[requestData[key[p]].ImageHash] # Nil

\* C16 witness: the write of a request file failed, the request returned
\* its palette, and a later request for the key was answered on the fast
\* path from the entry in memory, there being no file.
C16_Witness ==
    \E p, q \in Procs :
        /\ "reqSaveErr" \in did[p] /\ Succeeded(p)
        /\ key[q] = key[p] /\ pc[q] = "done" /\ path[q] = "fast"
        /\ colors[q] = colors[p]
        /\ requestFiles[key[p]] = NoRequestFile

\* C17 as stated: two requests that failed in the same step have sent the
\* same error body, whatever error the feed or the analyzer returned.
C17_SanitizedErrorBody ==
    \A p, q \in Procs :
        (pc[p] = "done" /\ pc[q] = "done" /\ path[p] = path[q]
            /\ path[p] \in {"upstreamErr", "analysisErr"})
            => body[p] = body[q]

\* C18: RequestCache.Get hands the caller the entry stored for the key,
\* expired or not; an entry, once stored, is never absent again, and the
\* key of every request that has called Set has an entry.
C18_GetIgnoresExpiry ==
    [][/\ \A p \in Procs :
            (pc[p] = "idle" /\ pc'[p] # "idle") =>
                reqEntry'[p] = requestData[key'[p]]
       /\ \A k \in Keys : requestData[k] # NoEntry => requestData'[k] # NoEntry
       /\ \A p \in Procs :
            "reqSet" \in did'[p] => requestData'[key'[p]] # NoEntry
      ]_vars

\* C18 witness: Get has returned an entry whose ExpiresAt is not after now.
C18_Witness ==
    \E p \in Procs :
        /\ pc[p] = "s2"
        /\ reqEntry[p] # NoEntry /\ reqEntry[p] = requestData[key[p]]
        /\ now >= reqEntry[p].ExpiresAt

\* C19: every change of the entry of a key is a Set of a request for that
\* key, and after a Set the entry is exactly the entry made from the
\* arguments of that Set: hash, metadata and expiry, nothing of the old one.
C19_LastWriterWins ==
    [][/\ \A k \in Keys :
            requestData'[k] # requestData[k] =>
                \E p \in Procs : key[p] = k /\ "reqSet" \in did'[p] \ did[p]
       /\ \A p \in Procs :
            (pc[p] # "done" /\ pc'[p] = "done" /\ "reqSet" \in did'[p]) =>
                requestData'[key[p]] =
                    [Locale |-> key[p][1], DaysAgo |-> key[p][2],
                     ImageHash |-> imageHash[p], Info |-> info[p],
                     ExpiresAt |-> (now - (now % Hour)) + Hour]
      ]_vars

\* C19 witness: a request has overwritten the entry it had found for its
\* key with one of another image and a later expiry.
C19_Witness ==
    \E p \in Procs :
        /\ Succeeded(p) /\ "reqSet" \in did[p]
        /\ reqEntry[p] # NoEntry
        /\ requestData[key[p]].ImageHash = imageHash[p]
        /\ reqEntry[p].ImageHash # imageHash[p]
        /\ reqEntry[p].Info # requestData[key[p]].Info
        /\ reqEntry[p].ExpiresAt < requestData[key[p]].ExpiresAt

GoodRequestFile(doc) ==
    doc \notin {NoRequestFile, UnreadableRequestFile, GarbledRequestFile}

GoodAnalysisFile(doc) ==
    doc \notin {NoAnalysisFile, UnreadableAnalysisFile, GarbledAnalysisFile}

\* C21: LoadAll of either cache skips every file it cannot read or parse
\* and loads every good one, so that after start-up the in-memory map holds
\* exactly the good files; on a missing directory it leaves the map empty
\* and the process goes on to serve.
C21_LoadAllSkipsBadRecords ==
    [][crashes' # crashes =>
        /\ \A k \in Keys :
              IF requestFiles # NoDirectory /\ GoodRequestFile(requestFiles[k])
              THEN /\ requestData'[k].ImageHash = requestFiles[k].image_hash
                   /\ requestData'[k].Info = requestFiles[k].info
                   /\ requestData'[k].ExpiresAt = requestFiles[k].expires_at
              ELSE requestData'[k] = NoEntry
        /\ \A h \in Hashes :
              IF analysisFiles # NoDirectory /\ GoodAnalysisFile(analysisFiles[h])
              THEN analysisData'[h] = analysisFiles[h].colors
              ELSE analysisData'[h] = Nil
        /\ \A p \in Procs : pc'[p] = "idle"]_vars

\* C21 witness: the process has started on a request directory holding a
\* garbled file next to a good one, which is loaded, and on a missing
\* analysis directory, which left the analysis map empty.
C21_Witness ==
    /\ crashes > 0
    /\ analysisFiles = NoDirectory
    /\ \A h \in Hashes : analysisData[h] = Nil
    /\ requestFiles # NoDirectory
    /\ \E k1, k2 \in Keys :
          /\ requestFiles[k1] = GarbledRequestFile
          /\ requestData[k1] = NoEntry
          /\ GoodRequestFile(requestFiles[k2])
          /\ requestData[k2].ImageHash = requestFiles[k2].image_hash

IsInteger(str) ==
    /\ SignLen(str) < Len(str)
    /\ \A i \in (SignLen(str) + 1)..Len(str) : str[i] \in Digits

\* the integer it writes
IntegerOf(str) ==
    IF SignLen(str) = 1 /\ str[1] = "-"
    THEN 0 - Decimal(str, 2, Len(str)) ELSE Decimal(str, SignLen(str) + 1, Len(str))

\* the request passes validation as the documentation of the API has it
ValidRequest(r) ==
    /\ r.method = "GET"
    /\ \/ r.daysAgo = << >>
       \/ IsInteger(r.daysAgo) /\ IntegerOf(r.daysAgo) \in 0..maxDaysBack
    /\ r.locale = "" \/ r.locale \in Locales

\* C23: a request that is not a GET, or whose daysAgo is not an integer or
\* is outside 0..7, or whose locale is not allowed, is answered with 405 or
\* 400 and has then read and written no store, taken no lock and called no
\* collaborator; a valid request goes on to step 1 with daysAgo 0 for an
\* empty daysAgo and en-US for an empty locale.
C23_InvalidRejectedFirst ==
    [][\A p \in Procs :
          (pc[p] = "validate" /\ pc'[p] # "validate") =>
              IF ValidRequest(req[p])
              THEN /\ pc'[p] \in {"s1", "s2"}
                   /\ key'[p][1] = (IF req[p].locale = "" THEN "en-US"
                                                          ELSE req[p].locale)
                   /\ key'[p][2] = (IF req[p].daysAgo = << >> THEN 0
                                    ELSE IntegerOf(req[p].daysAgo))
              ELSE /\ pc'[p] = "done"
                   /\ path'[p] = (IF req[p].method # "GET"
                                  THEN StatusMethodNotAllowed
                                  ELSE StatusBadRequest)
                   /\ did'[p] = {} /\ reqEntry'[p] = NoEntry
                   /\ imageMutex'[p] = NoMutex
                   /\ shared' = shared /\ files' = files /\ counts' = counts
                   /\ market' = market
      ]_vars

C26_AtomicLookupOrCreate ==
    /\ Len(mutexHolder) = Cardinality({h \in Hashes : processing[h] # NoMutex})
    /\ \A p \in Procs :
          (pc[p] = "lock" \/ HoldsLock(p)) =>
              /\ imageMutex[p] # NoMutex
              /\ imageMutex[p] = processing[imageHash[p]]
    /\ \A p \in Procs : pc[p] \in {"reg", "regnew"} <=> processingL = p

\* C26 witness: two requests have called GetMutex for one image hash that
\* has no mutex yet; one is inside, about to create it, the other waits
\* for processingL.
C26_Witness ==
    \E p, q \in Procs :
        /\ p # q /\ imageHash[p] = imageHash[q]
        /\ pc[p] = "regnew" /\ pc[q] = "s5"
        /\ processing[imageHash[p]] = NoMutex
        /\ processingL = p

\* C27: a request that takes the image mutex when the analysis of its image
\* has been stored meanwhile returns from step 6: it answers with the
\* stored palette, writes the request entry of its key, unlocks the mutex
\* and never calls the analyzer.
C27_UnderLockRecheck ==
    [][\A p \in Procs :
          (pc[p] = "s6" /\ pc'[p] # "s6" /\ analysisData[imageHash[p]] # Nil) =>
              /\ pc'[p] = "done" /\ path'[p] = "recheck"
              /\ colors'[p] = analysisData[imageHash[p]]
              /\ "reqSet" \in did'[p]
              /\ requestData'[key[p]].ImageHash = imageHash[p]
              /\ mutexHolder'[imageMutex[p]] = NoProc
              /\ "ai" \notin did'[p]
              /\ aiCalls' = aiCalls /\ analysisData' = analysisData
      ]_vars

\* C27 witness: a request found no analysis in step 4 and waited for the
\* mutex while the holder stored the palette; it then took the mutex, found
\* the palette in step 6 and returned it, its request entry written and
\* the mutex free again.
C27_Witness ==
    \E p, q \in Procs :
        /\ pc[p] = "done" /\ path[p] = "recheck" /\ "lock" \in did[p]
        /\ pc[q] = "done" /\ path[q] = "computed"
        /\ imageHash[p] = imageHash[q]
        /\ colors[p] = colors[q]
        /\ requestData[key[p]].ImageHash = imageHash[p]
        /\ mutexHolder[imageMutex[p]] = NoProc
        /\ aiCalls[imageHash[p]] = 1

\* C28: AnalysisCache.Set is called, and the analysis map changed, only by
\* a request that holds the registered mutex of its image hash, has called
\* the analyzer after missing in step 6, and finds the hash still absent;
\* the write touches that hash alone.
C28_SetOnlyByLockHolder ==
    [][/\ \A p \in Procs :
             (pc[p] = "set" /\ pc'[p] # "set") =>
                 /\ imageMutex[p] = processing[imageHash[p]]
                 /\ mutexHolder[imageMutex[p]] = p
                 /\ {"lock", "ai"} \subseteq did[p]
                 /\ analysisData[imageHash[p]] = Nil
       /\ analysisData' # analysisData =>
             \E p \in Procs :
                 /\ pc[p] = "set" /\ pc'[p] = "save"
                 /\ mutexHolder[imageMutex[p]] = p
                 /\ analysisData' =
                        [analysisData EXCEPT ![imageHash[p]] = colors[p]]
      ]_vars

\* C28 witness: the holder of an image mutex has written the palette and is
\* saving the file while another request for the same image waits for the
\* mutex.
C28_Witness ==
    \E p, q \in Procs :
        /\ pc[p] = "save" /\ pc[q] = "lock"
        /\ imageHash[p] = imageHash[q]
        /\ mutexHolder[imageMutex[p]] = p
        /\ analysisData[imageHash[p]] = colors[p]

\* C29: a Get of the analysis cache never waits for a Set of another image
\* hash: while a request is inside Set for hash B, writing B's file, a
\* request about to Get hash A can take the read lock.
C29_ReadsNeverWait ==
    \A p, q \in Procs :
        (/\ p # q
         /\ pc[q] = "save"
         /\ pc[p] \in {"s1", "s4", "s6"}
         /\ (IF pc[p] = "s1" THEN reqEntry[p].ImageHash ELSE imageHash[p])
                # imageHash[q])
            => AnalysisRLock

\* C30: RequestCache.Set for a key changes the entry of that key alone: the
\* entries of all other keys and the whole analysis map stay as they were;
\* and an entry read in step 1 is answered with the one palette stored for
\* the image hash it holds, whichever key it was read under.
C30_SetChangesOneKey ==
    [][\A p \in Procs :
          /\ ("reqSet" \in did'[p] /\ "reqSet" \notin did[p]) =>
                /\ \A k \in Keys : k # key[p] => requestData'[k] = requestData[k]
                /\ requestData'[key[p]].ImageHash = imageHash[p]
                /\ requestData'[key[p]].Locale = key[p][1]
                /\ analysisData' = analysisData
          /\ (pc[p] = "s1" /\ path'[p] = "fast") =>
                colors'[p] = analysisData[reqEntry[p].ImageHash]
      ]_vars

\* C30 witness: the entries of two keys hold the same image hash; a request
\* for one key and a request for the other were both answered with the one
\* palette stored for it, one of them on the fast path.
C30_Witness ==
    \E p, q \in Procs :
        /\ key[p] # key[q]
        /\ pc[p] = "done" /\ path[p] = "fast"
        /\ pc[q] = "done" /\ path[q] \in {"cross", "recheck"}
        /\ requestData[key[p]].ImageHash = requestData[key[q]].ImageHash
        /\ colors[p] = analysisData[requestData[key[p]].ImageHash]
        /\ colors[q] = colors[p]

\* the request has ended and left nothing half done: it holds no mutex, and
\* if it wrote the analysis it wrote the request entry after it
Completed(p) ==
    /\ pc[p] = "done"
    /\ \A m \in DOMAIN mutexHolder : mutexHolder[m] # p
    /\ "anSet" \in did[p] => "reqSet" \in did[p]
    /\ "reqSet" \in did[p] =>
          /\ requestData[key[p]] # NoEntry
          /\ analysisData[imageHash[p]] # Nil
    /\ "reqSet" \notin did[p] => did[p] \cap {"anSet", "anSaveErr", "reqSaveErr"} = {}

\* C31: a request whose client has closed the connection, wherever it was
\* (waiting for the mutex, in the feed call, in the AI call), goes on to its
\* end; at its end it has written both entries, analysis before request,
\* or none, and it holds no mutex, so the requests waiting for the mutex of
\* its image get it.
C31_AbandonedRunsToCompletion ==
    \A p \in Procs :
        /\ [](p \in gone /\ pc[p] = "done" => Completed(p))
        /\ (p \in gone /\ pc[p] # "done") ~> (p \in gone /\ Completed(p))
        /\ \A q \in Procs :
              (p \in gone /\ pc[q] = "lock" /\ mutexHolder[imageMutex[q]] = p)
                  ~> (pc[q] = "s6")

\* C31 witness: a client closed the connection during the AI call; the
\* request went on, committed both entries and released the mutex, which
\* the request that had waited for it now holds.
C31_Witness ==
    \E p, q \in Procs :
        /\ p \in gone /\ Completed(p) /\ path[p] = "computed"
        /\ "anSet" \in did[p] /\ "reqSet" \in did[p]
        /\ imageMutex[q] = imageMutex[p] /\ pc[q] = "s6"
        /\ mutexHolder[imageMutex[p]] = q

\* C32: with feed and AI calls that return and a fair scheduler, every
\* request that has started sends its response; a request waiting for the
\* mutex of its image, which has no timeout, gets the mutex.
C32_EveryRequestResponds ==
    \A p \in Procs :
        /\ (pc[p] \notin {"idle", "done"}) ~> (pc[p] = "done")
        /\ (pc[p] = "lock") ~> (pc[p] = "s6")

\* C32 witness: a request found the mutex of its image locked by a request
\* in its AI call, and has since got the mutex and sent the palette the
\* holder stored.
C32_Witness ==
    \E p, q \in Procs :
        /\ p # q /\ imageMutex[p] = imageMutex[q] /\ imageMutex[p] # NoMutex
        /\ pc[p] = "done" /\ path[p] = "computed"
        /\ pc[q] = "done" /\ path[q] = "recheck"
        /\ colors[q] = colors[p]
        /\ mutexHolder[imageMutex[p]] = NoProc

\* C33 as stated: whatever the interleaving of requests for different
\* locales, the feed is asked with the locale of the request that asks, so
\* the metadata a request holds, and the metadata of the entry stored under
\* a key, are those the feed serves for the locale of that request or key.
C33_FeedAskedWithOwnLocale ==
    /\ \A p \in Procs : info[p] # NoInfo => info[p].mkt = key[p][1]
    /\ \A k \in Keys : requestData[k] # NoEntry => requestData[k].Info.mkt = k[1]

\* the request writes the request entry of its key in this step
WritesRequest(p) == "reqSet" \in did'[p] /\ "reqSet" \notin did[p]

\* C34 as stated: the entry a request writes expires no later than the
\* first hour boundary after the time at which the request got its metadata
\* and image from the feed, however long it then waited for the mutex or
\* the AI call.
C34_ExpiryBoundedByFetch ==
    [][\A p \in Procs :
          WritesRequest(p) =>
              requestData'[key[p]].ExpiresAt <= getNextHourBoundary(fetchedAt[p])
      ]_vars

\* C35 as stated: a request never overwrites an entry of its key that was
\* written from feed data fetched later than its own.
C35_NewestFetchWins ==
    [][\A p, q \in Procs :
          (/\ p # q /\ key[p] = key[q]
           /\ WritesRequest(p)
           /\ "reqSet" \in did[q]
           /\ requestData[key[q]].ImageHash = imageHash[q]
           /\ requestData[key[q]].Info = info[q])
              => fetchedAt[q] <= fetchedAt[p]
      ]_vars

\* C35 amended: when requests for one key overlap, the entry left is the
\* one written last, whenever its data was fetched: each write of a request
\* entry puts the hash and metadata the writer fetched under its key, also
\* over an entry written from a later fetch, and the entry stays as it is
\* until the next write of a request for that key.
C35_LastWriteStays ==
    [][/\ \A p \in Procs :
            WritesRequest(p) =>
                /\ requestData'[key[p]].ImageHash = imageHash[p]
                /\ requestData'[key[p]].Info = info[p]
       /\ \A k \in Keys :
            (\A p \in Procs : ~(key[p] = k /\ WritesRequest(p))) =>
                requestData'[k] = requestData[k]
      ]_vars

\* C35 witness: two requests for one key overlapped, the feed changed its
\* image between their downloads, and the entry left is that of the request
\* that fetched first and wrote last.
C35_Witness ==
    \E p, q \in Procs :
        /\ p # q /\ key[p] = key[q]
        /\ Succeeded(p) /\ Succeeded(q)
        /\ "reqSet" \in did[p] /\ "reqSet" \in did[q]
        /\ fetchedAt[p] < fetchedAt[q]
        /\ info[p] # info[q]
        /\ requestData[key[p]].Info = info[p]
        /\ requestData[key[p]].ImageHash = imageHash[p]

\* C36: as long as the process has not been started again, every request
\* entry in memory names an image hash whose analysis entry is in memory:
\* the analysis is written before the request entry and stays in memory
\* also when its file write fails.
C36_MemoryReferentialIntegrity ==
    crashes = 0 =>
        /\ \A k \in Keys :
              requestData[k] # NoEntry =>
                  analysisData[requestData[k].ImageHash] # Nil
        /\ \A p \in Procs :
              "reqSet" \in did[p] => analysisData[imageHash[p]] # Nil

\* C36 witness: the file write of the palette failed, the request went on
\* to write its request entry, and the entry names the image whose palette
\* is in memory only.
C36_Witness ==
    \E p \in Procs :
        /\ crashes = 0
        /\ "anSaveErr" \in did[p] /\ "reqSet" \in did[p]
        /\ requestData[key[p]].ImageHash = imageHash[p]
        /\ analysisData[imageHash[p]] # Nil
        /\ analysisFiles[imageHash[p]] = NoAnalysisFile

\* C37: a request that finds a fresh entry for its key whose image has no
\* analysis entry does not answer from it and sends no error: its next step
\* (the process not being killed) leads to the feed; when such a request succeeds it has asked the feed, its
\* palette is a stored palette, and if it computed the palette it did so
\* holding the mutex of the image.
C37_DanglingEntryFallsThrough ==
    [][\A p \in Procs :
          /\ (/\ pc[p] = "s1" /\ pc'[p] # "s1" /\ crashes' = crashes
              /\ analysisData[reqEntry[p].ImageHash] = Nil) =>
                /\ pc'[p] = "s2"
                /\ path'[p] = "none" /\ body'[p] = NoBody
          /\ Succeeded(p)' =>
                /\ colors'[p] \in Palettes
                /\ colors'[p] = analysisData'[IF path'[p] = "fast"
                                               THEN reqEntry'[p].ImageHash
                                               ELSE imageHash'[p]]
          /\ (/\ Succeeded(p)' /\ path'[p] # "fast"
              /\ reqEntry'[p] # NoEntry
              /\ checkedAt'[p] < reqEntry'[p].ExpiresAt) =>
                /\ "feed" \in did'[p]
                /\ path'[p] = "computed" => {"lock", "ai", "anSet"} \subseteq did'[p]
      ]_vars

\* C37 witness: after a restart that loaded a request entry but not the
\* analysis of its image, a request for the key found the entry fresh,
\* asked the feed again, computed the palette under the mutex and stored it.
C37_Witness ==
    \E p \in Procs :
        /\ crashes > 0
        /\ Succeeded(p) /\ path[p] = "computed"
        /\ reqEntry[p] # NoEntry /\ checkedAt[p] < reqEntry[p].ExpiresAt
        /\ reqEntry[p].ImageHash = imageHash[p]
        /\ "feed" \in did[p] /\ "lock" \in did[p]
        /\ analysisData[imageHash[p]] = colors[p]

\* a step of the handler of request p, statement by statement
HandlerStatement(p) ==
    \/ Validate(p)
    \/ Step1(p)
    \/ SetLocale(p)
    \/ \E img \in Images : FetchOk(p, img)
    \/ FetchFail(p, "failed to fetch from Bing API")
    \/ Step4(p)
    \/ RegistryEnter(p)
    \/ RegistryLookup(p)
    \/ RegistryInsert(p)
    \/ Lock(p)
    \/ Step6(p)
    \/ AIFail(p, "no response from AI model")
    \/ \E cols \in Palettes : AIReturn(p, cols)
    \/ SetLock(p)
    \/ SetSave(p)
    \/ Step9(p)

\* the image mutexes request p has locked
LockedBy(p) == {m \in DOMAIN mutexHolder : mutexHolder[m] = p}

\* C38: no request has locked more than one image mutex; a request waiting
\* for an image mutex holds neither the registry lock nor the lock of the
\* analysis cache nor another image mutex; the holder of the registry lock
\* or of the cache lock is inside GetMutex or Set and waits for no lock;
\* and whenever requests are being served, one of them can take a step.
C38_DeadlockFree ==
    /\ \A p \in Procs : Cardinality(LockedBy(p)) <= 1
    /\ \A p \in Procs :
          pc[p] = "lock" =>
              /\ processingL # p /\ analysisMu # p
              /\ LockedBy(p) = {}
    /\ \A p \in Procs :
          /\ processingL = p <=> pc[p] \in {"reg", "regnew"}
          /\ analysisMu = p <=> pc[p] = "save"
          /\ pc[p] \in {"reg", "regnew", "save"} => ENABLED HandlerStatement(p)
    /\ (\E p \in Procs : pc[p] \notin {"idle", "done"}) =>
          \E p \in Procs : pc[p] \notin {"idle", "done"} /\ ENABLED HandlerStatement(p)

\* C38 witness: one request is inside Set, holding the mutex of its image
\* and the lock of the cache, while another, holding the mutex of another
\* image, waits for the lock of the cache.
C38_Witness ==
    \E p, q \in Procs :
        /\ pc[p] = "save" /\ analysisMu = p
        /\ pc[q] = "set" /\ ~ENABLED SetLock(q)
        /\ LockedBy(p) # {} /\ LockedBy(q) # {}
        /\ LockedBy(p) # LockedBy(q)

\* C39: the metadata and the palette of every successful response belong
\* to one image: on the fast path both come from the entry RequestCache.Get
\* returned, the palette being the analysis of the hash that entry names,
\* whatever has been written under the key since; on the other paths the
\* palette is the analysis of the hash of the image downloaded with the
\* metadata.
C39_MetadataAndPaletteOfOneImage ==
    \A p \in Procs :
        Succeeded(p) =>
            IF path[p] = "fast"
            THEN /\ info[p] = reqEntry[p].Info
                 /\ reqEntry[p].ImageHash = HashImage(info[p].img)
                 /\ colors[p] = analysisData[reqEntry[p].ImageHash]
            ELSE /\ imageHash[p] = HashImage(info[p].img)
                 /\ colors[p] = analysisData[imageHash[p]]

\* C39 witness: a request was answered on the fast path from the entry it
\* had read, while the entry of its key is by now one of another image
\* with another palette.
C39_Witness ==
    \E p \in Procs :
        /\ Succeeded(p) /\ path[p] = "fast"
        /\ requestData[key[p]].ImageHash # reqEntry[p].ImageHash
        /\ requestData[key[p]].Info # info[p]
        /\ analysisData[requestData[key[p]].ImageHash] # colors[p]
        /\ colors[p] = analysisData[reqEntry[p].ImageHash]

\* C40: whenever no Set of a cache is between its memory write and its
\* file write, the file of every entry of that cache is the entry in
\* memory, whatever the interleaving of the Set calls.
C40_FileEqualsMemory ==
    /\ requestMu = NoProc =>
          \A k \in Keys :
              requestData[k] # NoEntry =>
                  /\ requestFiles[k] = MarshalRequest(requestData[k])
                  /\ UnmarshalRequest(requestFiles[k]) = requestData[k]
    /\ analysisMu = NoProc =>
          \A h \in Hashes :
              analysisData[h] # Nil =>
                  analysisFiles[h] = MarshalAnalysis(h, analysisData[h])

\* C40 witness: a Set for a key has returned and the file of the key holds
\* the entry it put in memory, while a Set for the same key with another
\* image waits to be served; an analysis entry has its file too.
C40_Witness ==
    \E p, q \in Procs :
        /\ p # q /\ key[p] = key[q] /\ key[p] # NoKey
        /\ pc[p] = "done" /\ pc[q] = "rset"
        /\ info[p] # info[q]
        /\ requestMu = NoProc
        /\ requestData[key[p]].Info = info[p]
        /\ requestFiles[key[p]] = MarshalRequest(requestData[key[p]])
        /\ \E h \in Hashes :
              /\ analysisData[h] # Nil
              /\ analysisFiles[h] = MarshalAnalysis(h, analysisData[h])

====
